---- MODULE Spec2Model ----
(***************************************************************************)
(* A model of gltf2ozz (src/src/animation/offline/gltf/gltf2ozz.cc): the   *)
(* glTF importer of ozz-animation.                                         *)
(*                                                                         *)
(* Part 1 models the skeleton overload of GltfImporter::Import:            *)
(* GetSkinsForScene,                                                       *)
(* FindSkinRootJointIndex, the recursive ImportNode and the final          *)
(* validation.  Loops and recursive calls are single steps, so that a run  *)
(* that never returns is a behaviour of the model.                         *)
(*                                                                         *)
(* Nodes are identified by their index in m_model.nodes.  Load() runs      *)
(* FixupNames on the nodes, so node names are unique: a joint's name is    *)
(* modelled by the index of the node it was built from.                    *)
(***************************************************************************)
EXTENDS Integers, Sequences, FiniteSets, TLC

\* Bounds of the document the importer is run on.
NumNodes == 3
MaxEdges == 2

Nodes == 0 .. (NumNodes - 1)

\* The call stack holds the frames of an acyclic descent (at most one per
\* node) and one more; a deeper recursion overflows it.
MaxDepth == NumNodes + 1

VARIABLES
  \* m_model, the loaded document: read-only after Load.
  nodeChildren,   \* nodes[n].children, a sequence of node indices
  nodeMatrix,     \* nodes[n].matrix.size() != 0
  sceneNodes,     \* scenes[defaultScene].nodes
  modelSkins,     \* skins: sequence of [joints, skeleton]
  \* Import (skeleton): locals and the caller's output object.
  pc,             \* position in Import
  open,           \* GetSkinsForScene: open
  found,          \* GetSkinsForScene: found
  skins,          \* Import: skins (result of GetSkinsForScene)
  skinIdx,        \* Import: position of the range-for over skins
  root,           \* FindSkinRootJointIndex: root
  roots,          \* Import: roots (ozz::Set<int>)
  rootIdx,        \* Import: i, the index of the next root joint
  stack,          \* ImportNode: the call stack, innermost frame last
  skeleton,       \* _skeleton: the caller's RawSkeleton, joints in creation order
  result          \* Import's return value ("none" until it returns)

VARIABLES
  \* One call of a channel sampler (SampleLinearChannel, SampleStepChannel,
  \* SampleCubicSplineChannel): its arguments and its locals.
  sPc,            \* position in the call
  sKind,          \* which sampler is called
  sTimestamps,    \* _timestamps: the input accessor's floats
  sValues,        \* values: the output accessor's elements (_output.count of them)
  past,           \* the float that lies in memory behind an accessor's data
  sRate,          \* _sampling_rate
  sDuration,      \* duration
  sKeyframes,     \* *_keyframes
  sI,             \* SampleCubicSplineChannel: i
  sCurrentKey     \* SampleCubicSplineChannel: currentKey

VARIABLES
  \* m_model, the animation and the nodes' rest pose: read-only after Load.
  nodeRest,         \* nodes[n].translation, .rotation, .scale: <<>> or <<v>>
  animChannels,     \* the animation's channels, each with its sampler
  \* The animation overload of Import: arguments, locals, the caller's output.
  jointNames,       \* skeleton.joint_names(), each the node of that name
  samplingRate,     \* _sampling_rate
  samplingRateWarn, \* the function's static bool
  animPc,           \* position in Import
  jointIdx,         \* i, counted from 1
  channelIdx,       \* position of the range-for over the joint's channels
  animDuration,     \* _animation->duration
  animTracks,       \* _animation->tracks
  animResult        \* Import's return value ("none" until it returns)

VARIABLES
  \* Several calls of the animation overload of Import on one importer.
  callPc,           \* each call's position in lines 553-565 and behind
  callRate,         \* the sampling rate each call is given
  callSamplingRate, \* each call's _sampling_rate
  callLogged        \* whether the call has logged the sampling rate warning

animVars == <<nodeRest, animChannels, jointNames, samplingRate, samplingRateWarn,
              animPc, jointIdx, channelIdx, animDuration, animTracks, animResult>>
docVars == <<nodeChildren, nodeMatrix, sceneNodes, modelSkins>>
skelVars == <<pc, open, found, skins, skinIdx, root, roots, rootIdx, stack,
              skeleton, result>>
samplerVars == <<sPc, sKind, sTimestamps, sValues, past, sRate, sDuration,
                 sKeyframes, sI, sCurrentKey>>
callVars == <<callPc, callRate, callSamplingRate, callLogged>>
notSkelVars == <<samplerVars, animVars, callVars>>
notSamplerVars == <<docVars, skelVars, animVars, callVars>>
notAnimVars == <<docVars, skelVars, callVars, sPc, sKind, sTimestamps, sValues, sRate, sDuration,
                 sKeyframes, sI, sCurrentKey>>
vars == <<docVars, skelVars, samplerVars, animVars, callVars>>

----------------------------------------------------------------------------
\* Helpers

Range(s) == {s[i] : i \in DOMAIN s}

Min(S) == CHOOSE x \in S : \A y \in S : x <= y

RECURSIVE SortedSeq(_)
SortedSeq(S) == IF S = {} THEN <<>> ELSE <<Min(S)>> \o SortedSeq(S \ {Min(S)})

\* All sequences without repetition over S.
InjectiveSeqs(S) ==
  UNION {{f \in [1 .. k -> S] : \A i, j \in 1 .. k : f[i] = f[j] => i = j} :
         k \in 0 .. Cardinality(S)}

NoNode == 0 - 1


----------------------------------------------------------------------------
\* Floats
\*
\* Times are counted in ticks, TicksPerSecond of them in a second, and are
\* floats: below ExactLimit every tick is a float, in the next binade every
\* second one, and so on, as in binary32 with fewer significand bits.  The
\* time scale is compressed: eps (1e-6 s) is one tick.  Values are exact
\* rationals <<numerator, denominator>>, a denominator of 0 standing for what
\* a division by zero leaves (an infinity or a NaN).

DefaultRate == 30
Eps == 1
SignificandBits == 3
MaxTime == 4
MaxSamples == 3

TicksPerSecond == 2 * DefaultRate

RECURSIVE Pow2(_)
Pow2(n) == IF n = 0 THEN 1 ELSE 2 * Pow2(n - 1)

ExactLimit == Pow2(SignificandBits)

\* The distance between the floats around x >= 0.
RECURSIVE Ulp(_)
Ulp(x) == IF x < ExactLimit THEN 1 ELSE 2 * Ulp(x \div 2)

\* x rounded to the nearest float, a tie to the even significand.
FloatRound(x) ==
  LET a == IF x < 0 THEN 0 - x ELSE x
      u == Ulp(a)
      lo == (a \div u) * u
      r == IF a = lo THEN a
           ELSE IF 2 * (a - lo) < u THEN lo
           ELSE IF 2 * (a - lo) > u THEN lo + u
           ELSE IF ((lo \div u) % 2) = 0 THEN lo ELSE lo + u
  IN  IF x < 0 THEN 0 - r ELSE r

\* timestamps[i + 1] - eps, in float arithmetic.
FloatSub(x, y) == FloatRound(x - y)

RECURSIVE Gcd(_, _)
Gcd(a, b) == IF b = 0 THEN a ELSE Gcd(b, a % b)

Abs(x) == IF x < 0 THEN 0 - x ELSE x

NaN == <<0, 0>>

\* The rational n/d in lowest terms with a positive denominator.
Rat(n, d) ==
  IF d = 0 THEN NaN
  ELSE LET g == Gcd(Abs(n), Abs(d))
           sgn == IF d < 0 THEN 0 - 1 ELSE 1
       IN  <<sgn * (n \div g), sgn * (d \div g)>>

Num(n) == <<n, 1>>

RatAdd(x, y) ==
  IF x[2] = 0 \/ y[2] = 0 THEN NaN ELSE Rat(x[1] * y[2] + y[1] * x[2], x[2] * y[2])

RatSub(x, y) ==
  IF x[2] = 0 \/ y[2] = 0 THEN NaN ELSE Rat(x[1] * y[2] - y[1] * x[2], x[2] * y[2])

RatMul(x, y) ==
  IF x[2] = 0 \/ y[2] = 0 THEN NaN ELSE Rat(x[1] * y[1], x[2] * y[2])

RatDiv(x, y) ==
  IF x[2] = 0 \/ y[2] = 0 THEN NaN ELSE Rat(x[1] * y[2], x[2] * y[1])

\* A time span in ticks, as the float number of seconds the code computes with.
Seconds(ticks) == Rat(ticks, TicksPerSecond)

\* n / d >= 0 rounded to the nearest float of SignificandBits bits, a tie to
\* the even significand: the one rounding of a float product or quotient.
RECURSIVE FloatRoundRat(_, _)
FloatRoundRat(n, d) ==
  IF n = 0 THEN Num(0)
  ELSE IF n < Pow2(SignificandBits - 1) * d
  THEN RatDiv(FloatRoundRat(2 * n, d), Num(2))
  ELSE IF n >= ExactLimit * d
  THEN RatMul(FloatRoundRat(n, 2 * d), Num(2))
  ELSE LET q == n \div d
           r == n % d
       IN  IF 2 * r < d THEN Num(q)
           ELSE IF 2 * r > d THEN Num(q + 1)
           ELSE IF q % 2 = 0 THEN Num(q) ELSE Num(q + 1)

\* floor of a float >= 0.
Floor(x) == x[1] \div x[2]

\* duration * _sampling_rate, in float arithmetic: a number of samples.
FloatSamples(duration, rate) == FloatRoundRat(duration * rate, TicksPerSecond)

----------------------------------------------------------------------------
\* The channel samplers

Key(time, value) == [time |-> time, value |-> value]

\* array[index], index counted from 0; behind the array lies the float behind.
At(array, index, behind) ==
  IF index + 1 \in DOMAIN array THEN array[index + 1] ELSE behind

\* A copy that takes every value from the first element.
SampleLinearChannelFirst(count, timestamps, values, behind) ==
  [k \in 1 .. count |->
     Key(At(timestamps, k - 1, behind), At(values, 0, Num(behind)))]

\* SampleLinearChannel: one key per output element.
SampleLinearChannel(count, timestamps, values, behind) ==
  [k \in 1 .. count |->
     Key(At(timestamps, k - 1, behind), At(values, k - 1, Num(behind)))]

\* next_key.time of SampleStepChannel.
StepNextTime(timestamps, i, behind) == FloatSub(At(timestamps, i + 1, behind), Eps)

\* SampleStepChannel, for count >= 1: keys 2i and 2i+1 (from 0) of sample i.
SampleStepChannel(count, timestamps, values, behind) ==
  [k \in 1 .. (count * 2 - 1) |->
     LET i == (k - 1) \div 2
     IN  IF (k - 1) % 2 = 0
         THEN Key(At(timestamps, i, behind), At(values, i, Num(behind)))
         ELSE Key(StepNextTime(timestamps, i, behind), At(values, i, Num(behind)))]

\* SampleHermiteSpline.
SampleHermiteSpline(t, p0, m0, p1, m1) ==
  LET t2 == RatMul(t, t)
      t3 == RatMul(t2, t)
      a == RatAdd(RatSub(RatMul(Num(2), t3), RatMul(Num(3), t2)), Num(1))
      b == RatAdd(RatSub(t3, RatMul(Num(2), t2)), t)
      c == RatAdd(RatMul(Num(0 - 2), t3), RatMul(Num(3), t2))
      d == RatSub(t3, t2)
  IN  RatAdd(RatAdd(RatAdd(RatMul(p0, a), RatMul(m0, b)), RatMul(p1, c)),
             RatMul(m1, d))

\* A size without the key at time 0.
CubicSplineSizeShort(duration, rate) == Floor(FloatSamples(duration, rate))

\* The size SampleCubicSplineChannel resizes the keyframes to.
CubicSplineSize(duration, rate) == Floor(FloatSamples(duration, rate)) + 1

\* (float)i / _sampling_rate, in ticks.
CubicSplineTime(i, rate) == (i * TicksPerSecond) \div rate

\* The test of SampleCubicSplineChannel's while loop.  numKeyframes - 1 is
\* unsigned: it wraps to the largest size_t when numKeyframes is 0.
CubicSplineScanTest(timestamps, numKeyframes, currentKey, time, behind) ==
  /\ At(timestamps, currentKey, behind) > time
  /\ (numKeyframes = 0 \/ currentKey < numKeyframes - 1)

\* The while loop: the value of currentKey behind it.  With 3 output elements
\* per timestamp currentKey stays below the number of timestamps; with other
\* counts the loop can run on behind them, and is followed one element far.
RECURSIVE CubicSplineScan(_, _, _, _, _)
CubicSplineScan(timestamps, numKeyframes, currentKey, time, behind) ==
  IF /\ CubicSplineScanTest(timestamps, numKeyframes, currentKey, time, behind)
     /\ currentKey < Len(timestamps)
  THEN CubicSplineScan(timestamps, numKeyframes, currentKey + 1, time, behind)
  ELSE currentKey

\* The key of one iteration of SampleCubicSplineChannel's for loop, behind the
\* while loop.
CubicSplineKey(timestamps, values, currentKey, time, behind) ==
  LET currentTime == At(timestamps, currentKey, behind)
      nextTime == At(timestamps, currentKey + 1, behind)
      t == RatDiv(Num(time - currentTime), Num(nextTime - currentTime))
      p0 == At(values, currentKey * 3 + 1, Num(behind))
      m0 == RatMul(At(values, currentKey * 3 + 2, Num(behind)),
                   Seconds(nextTime - currentTime))
      p1 == At(values, (currentKey + 1) * 3 + 1, Num(behind))
      m1 == RatMul(At(values, (currentKey + 1) * 3, Num(behind)),
                   Seconds(nextTime - currentTime))
  IN  Key(time, SampleHermiteSpline(t, p0, m0, p1, m1))

\* SampleCubicSplineChannel from iteration i on: the keyframes it leaves.
RECURSIVE CubicSplineFrom(_, _, _, _, _, _, _, _)
CubicSplineFrom(i, size, currentKey, keyframes, timestamps, values, rate, behind) ==
  IF i >= size THEN keyframes
  ELSE LET time == CubicSplineTime(i, rate)
           key == CubicSplineScan(timestamps, Len(values) \div 3, currentKey, time, behind)
       IN  CubicSplineFrom(i + 1, size, key,
                           Append(keyframes, CubicSplineKey(timestamps, values, key, time, behind)),
                           timestamps, values, rate, behind)

SampleCubicSplineChannel(timestamps, values, rate, duration, behind) ==
  CubicSplineFrom(0, CubicSplineSize(duration, rate), 0, <<>>, timestamps, values,
                  rate, behind)

----------------------------------------------------------------------------
\* A sampler call on its own

\* Authored times: the floats up to MaxTime, and one from the next binade.
LongTime == 3 * Pow2(SignificandBits - 1)

AuthoredTimes == {t \in 0 .. MaxTime : FloatRound(t) = t} \cup {LongTime}

\* Strictly increasing timestamps, 1 to MaxSamples of them.
TimestampChoices ==
  {ts \in UNION {[1 .. n -> AuthoredTimes] : n \in 1 .. MaxSamples} :
     \A i \in 1 .. (Len(ts) - 1) : ts[i] < ts[i + 1]}

\* An output accessor's elements: element j (from 0) of the array is the
\* number base + j, so that a key shows which element it was read from.
OutputValues(base, count) == [j \in 1 .. count |-> Num(base + j - 1)]

\* The durations a sampler declares: authored times, and a float whose
\* product with a third of a sample per tick lies just below a whole number.
DeclaredDurations == AuthoredTimes \cup {LongTime + 2}

\* What lies in memory behind an array.
PastChoices == {0, MaxTime + 1}

SamplerIdle ==
  /\ sPc = "idle"
  /\ sKind = "none"
  /\ sTimestamps = <<>>
  /\ sValues = <<>>
  /\ past = 0
  /\ sRate = DefaultRate
  /\ sDuration = 0
  /\ sKeyframes = <<>>
  /\ sI = 0
  /\ sCurrentKey = 0

AnimationIdle ==
  /\ nodeRest = <<>>
  /\ animChannels = <<>>
  /\ jointNames = <<>>
  /\ samplingRate = 0
  /\ samplingRateWarn = FALSE
  /\ animPc = "idle"
  /\ jointIdx = 1
  /\ channelIdx = 1
  /\ animDuration = 0
  /\ animTracks = <<>>
  /\ animResult = "none"

CallsIdle ==
  /\ callPc = <<>>
  /\ callRate = <<>>
  /\ callSamplingRate = <<>>
  /\ callLogged = <<>>

----------------------------------------------------------------------------
\* The documents the importer is run on

\* Child links: at most MaxEdges of them, cycles and shared children included.
EdgeSets == {E \in SUBSET (Nodes \X Nodes) : Cardinality(E) <= MaxEdges}

ChildrenOf(E) == [n \in Nodes |-> SortedSeq({c \in Nodes : <<n, c>> \in E})]

\* At most one node carries a matrix.
MatrixChoices == {[n \in Nodes |-> n = m] : m \in Nodes \cup {NoNode}}

Skin(j, s) == [joints |-> j, skeleton |-> s]

\* No skin, one skin (any joints array, with or without an explicit root), or
\* two skins with disjoint non-empty joint sets and no explicit root.
SkinChoices ==
  {<<>>}
  \cup {<<Skin(j, s)>> : j \in InjectiveSeqs(Nodes), s \in Nodes \cup {NoNode}}
  \cup {<<Skin(j1, NoNode), Skin(j2, NoNode)>> :
          <<j1, j2>> \in {p \in InjectiveSeqs(Nodes) \X InjectiveSeqs(Nodes) :
                           /\ p[1] # <<>> /\ p[2] # <<>>
                           /\ Range(p[1]) \cap Range(p[2]) = {}}}

----------------------------------------------------------------------------
\* GetSkinsForScene

\* The skins of the document whose first joint was found in the scene.
SkinsFound(f) ==
  SelectSeq(modelSkins, LAMBDA s : s.joints # <<>> /\ s.joints[1] \in f)

----------------------------------------------------------------------------
\* FindSkinRootJointIndex

\* parents[child] = node, for the children of one joint.
SetParents(parents, node) ==
  LET cs == Range(nodeChildren[node])
  IN  [c \in (DOMAIN parents) \cup cs |-> IF c \in cs THEN node ELSE parents[c]]

\* The parents map: the joints in array order, a later joint overwriting.
RECURSIVE ParentsFrom(_, _, _)
ParentsFrom(joints, k, parents) ==
  IF k > Len(joints) THEN parents
  ELSE ParentsFrom(joints, k + 1, SetParents(parents, joints[k]))

Parents(skin) == ParentsFrom(skin.joints, 1, <<>>)

\* A walk that never goes up.
WalkNextStops(skin, r) == NoNode

\* One test of the while loop: the node to go on with, or NoNode to leave.
WalkNext(skin, r) ==
  IF r \in DOMAIN Parents(skin) THEN Parents(skin)[r] ELSE NoNode

----------------------------------------------------------------------------
\* ImportNode and the skeleton under construction

\* A joint as resize() default-constructs it: no name yet.
DefaultJoint(parent) == [name |-> NoNode, parent |-> parent]

DefaultJoints(n, parent) == [i \in 1 .. n |-> DefaultJoint(parent)]

\* CreateNodeTransform: fails on any node that carries a matrix.
CreateNodeTransform(node) == ~nodeMatrix[node]

Frame(node, joint, first) == [node |-> node, joint |-> joint, i |-> 1, first |-> first]

\* RawSkeleton::Validate, as the specification describes it: joint names are
\* unique.  (Single parent and acyclicity hold of every owned tree.)
Validate(sk) ==
  \A a, b \in DOMAIN sk : sk[a].name = sk[b].name => a = b

\* ImportNode(node, joint) up to its first recursive call: names the joint,
\* fills its transform or fails, and allocates the children.
ImportNodeCall(node, joint) ==
  IF Len(stack) >= MaxDepth
  THEN \* the recursion has exhausted the call stack
       /\ pc' = "overflow"
       /\ UNCHANGED <<stack, skeleton, result>>
  ELSE LET named == [skeleton EXCEPT ![joint].name = node]
       IN IF ~CreateNodeTransform(node)
          THEN \* return false, through every caller
               /\ skeleton' = named
               /\ stack' = <<>>
               /\ result' = "false"
               /\ pc' = "returned"
          ELSE /\ skeleton' = named \o DefaultJoints(Len(nodeChildren[node]), joint)
               /\ stack' = Append(stack, Frame(node, joint, Len(skeleton)))
               /\ pc' = "import"
               /\ UNCHANGED result

----------------------------------------------------------------------------
\* Import (skeleton)

InitSkeleton ==
  /\ \E E \in EdgeSets : nodeChildren = ChildrenOf(E)
  /\ nodeMatrix \in MatrixChoices
  /\ sceneNodes \in SUBSET Nodes
  /\ modelSkins \in SkinChoices
  /\ pc = "start"
  /\ open = {}
  /\ found = {}
  /\ skins = <<>>
  /\ skinIdx = 1
  /\ root = NoNode
  /\ roots = {}
  /\ rootIdx = 1
  /\ stack = <<>>
  /\ skeleton = <<>>
  /\ result = "none"
  /\ SamplerIdle
  /\ AnimationIdle
  /\ CallsIdle

\* Lines 436-456: the scene must have nodes; GetSkinsForScene is entered.
Import_Begin ==
  /\ pc = "start"
  /\ IF sceneNodes = {}
     THEN /\ pc' = "returned"
          /\ result' = "false"
          /\ UNCHANGED open
     ELSE /\ pc' = "scan"
          /\ open' = sceneNodes
          /\ UNCHANGED result
  /\ UNCHANGED <<notSkelVars, docVars, found, skins, skinIdx, root, roots, rootIdx, stack, skeleton>>

\* One iteration of GetSkinsForScene's while loop.
GetSkinsForScene_Step ==
  /\ pc = "scan"
  /\ open # {}
  /\ LET nodeIndex == Min(open)
     IN /\ found' = found \cup {nodeIndex}
        /\ open' = (open \ {nodeIndex}) \cup Range(nodeChildren[nodeIndex])
  /\ UNCHANGED <<notSkelVars, docVars, pc, skins, skinIdx, root, roots, rootIdx, stack, skeleton, result>>

\* GetSkinsForScene returns; Import takes the scene nodes as roots when no
\* skin was found, and otherwise loops over the skins.
GetSkinsForScene_Return ==
  /\ pc = "scan"
  /\ open = {}
  /\ skins' = SkinsFound(found)
  /\ IF SkinsFound(found) = <<>>
     THEN /\ roots' = sceneNodes
          /\ pc' = "traverse"
     ELSE /\ roots' = roots
          /\ pc' = "skins"
  /\ UNCHANGED <<notSkelVars, docVars, open, found, skinIdx, root, rootIdx, stack, skeleton, result>>

\* FindSkinRootJointIndex up to its while loop, for the next skin.
FindSkinRootJointIndex_Call ==
  /\ pc = "skins"
  /\ skinIdx <= Len(skins)
  /\ LET skin == skins[skinIdx]
     IN IF skin.joints = <<>>
        THEN \* returns -1: the skin is skipped
             /\ skinIdx' = skinIdx + 1
             /\ UNCHANGED <<pc, root, roots>>
        ELSE IF skin.skeleton # NoNode
        THEN /\ roots' = roots \cup {skin.skeleton}
             /\ skinIdx' = skinIdx + 1
             /\ UNCHANGED <<pc, root>>
        ELSE /\ root' = skin.joints[1]
             /\ pc' = "walk"
             /\ UNCHANGED <<skinIdx, roots>>
  /\ UNCHANGED <<notSkelVars, docVars, open, found, skins, rootIdx, stack, skeleton, result>>

\* One test of FindSkinRootJointIndex's while loop.
FindSkinRootJointIndex_Walk ==
  /\ pc = "walk"
  /\ LET next == WalkNext(skins[skinIdx], root)
     IN IF next # NoNode
        THEN /\ root' = next
             /\ UNCHANGED <<pc, skinIdx, roots>>
        ELSE /\ roots' = roots \cup {root}
             /\ skinIdx' = skinIdx + 1
             /\ pc' = "skins"
             /\ root' = NoNode
  /\ UNCHANGED <<notSkelVars, docVars, open, found, skins, rootIdx, stack, skeleton, result>>

\* The loop over the skins is over.
Import_RootsFound ==
  /\ pc = "skins"
  /\ skinIdx > Len(skins)
  /\ pc' = "traverse"
  /\ UNCHANGED <<notSkelVars, docVars, open, found, skins, skinIdx, root, roots, rootIdx, stack,
                 skeleton, result>>

\* _skeleton->roots.resize(roots.size())
Import_Traverse ==
  /\ pc = "traverse"
  /\ skeleton' = DefaultJoints(Cardinality(roots), 0)
  /\ rootIdx' = 1
  /\ pc' = "import"
  /\ UNCHANGED <<notSkelVars, docVars, open, found, skins, skinIdx, root, roots, stack, result>>

\* The loop over the roots (in the set's order) calls ImportNode.
Import_NextRoot ==
  /\ pc = "import"
  /\ stack = <<>>
  /\ rootIdx <= Cardinality(roots)
  /\ ImportNodeCall(SortedSeq(roots)[rootIdx], rootIdx)
  /\ rootIdx' = rootIdx + 1
  /\ UNCHANGED <<notSkelVars, docVars, open, found, skins, skinIdx, root, roots>>

\* ImportNode's loop over the children: the recursive call for child i.
ImportNode_Child ==
  /\ pc = "import"
  /\ stack # <<>>
  /\ LET top == stack[Len(stack)]
     IN /\ top.i <= Len(nodeChildren[top.node])
        /\ ImportNodeCall(nodeChildren[top.node][top.i], top.first + top.i)
  /\ UNCHANGED <<notSkelVars, docVars, open, found, skins, skinIdx, root, roots, rootIdx>>

\* ImportNode returns true to its caller, whose loop goes on.
ImportNode_Return ==
  /\ pc = "import"
  /\ stack # <<>>
  /\ LET top == stack[Len(stack)]
         rest == SubSeq(stack, 1, Len(stack) - 1)
     IN /\ top.i > Len(nodeChildren[top.node])
        /\ stack' = IF rest = <<>> THEN rest
                    ELSE [rest EXCEPT ![Len(rest)].i = @ + 1]
  /\ UNCHANGED <<notSkelVars, docVars, pc, open, found, skins, skinIdx, root, roots, rootIdx,
                 skeleton, result>>

\* Lines 500-507.
Import_Validate ==
  /\ pc = "import"
  /\ stack = <<>>
  /\ rootIdx > Cardinality(roots)
  /\ result' = IF Validate(skeleton) THEN "true" ELSE "false"
  /\ pc' = "returned"
  /\ UNCHANGED <<notSkelVars, docVars, open, found, skins, skinIdx, root, roots, rootIdx, stack,
                 skeleton>>

NextSkeleton ==
  \/ Import_Begin
  \/ GetSkinsForScene_Step
  \/ GetSkinsForScene_Return
  \/ FindSkinRootJointIndex_Call
  \/ FindSkinRootJointIndex_Walk
  \/ Import_RootsFound
  \/ Import_Traverse
  \/ Import_NextRoot
  \/ ImportNode_Child
  \/ ImportNode_Return
  \/ Import_Validate

SpecSkeleton == InitSkeleton /\ [][NextSkeleton]_vars

\* Import is one blocking call: a step that can be taken is taken.
SpecSkeletonFair == SpecSkeleton /\ WF_vars(NextSkeleton)


----------------------------------------------------------------------------
\* A sampler call on its own: the arguments SampleAnimationChannel passes for
\* a sampler that keeps the count ratio (one output element per timestamp,
\* three for a cubic spline).

SkeletonIdle ==
  /\ nodeChildren = [n \in Nodes |-> <<>>]
  /\ nodeMatrix = [n \in Nodes |-> FALSE]
  /\ sceneNodes = {}
  /\ modelSkins = <<>>
  /\ pc = "idle"
  /\ open = {}
  /\ found = {}
  /\ skins = <<>>
  /\ skinIdx = 1
  /\ root = NoNode
  /\ roots = {}
  /\ rootIdx = 1
  /\ stack = <<>>
  /\ skeleton = <<>>
  /\ result = "none"

\* The rates a cubic spline is sampled at (0 is replaced before any sampling).
SamplingRates == {DefaultRate, 2 * DefaultRate, (2 * DefaultRate) \div 3}

InitSampler ==
  /\ SkeletonIdle
  /\ AnimationIdle
  /\ CallsIdle
  /\ sPc = "call"
  /\ sKind \in {"LINEAR", "STEP", "CUBICSPLINE"}
  /\ sTimestamps \in TimestampChoices
  /\ sValues = OutputValues(10, IF sKind = "CUBICSPLINE" THEN 3 * Len(sTimestamps)
                                ELSE Len(sTimestamps))
  /\ past \in PastChoices
  /\ sRate \in (IF sKind = "CUBICSPLINE" THEN SamplingRates ELSE {DefaultRate})
  /\ sDuration \in (IF sKind = "CUBICSPLINE" THEN DeclaredDurations
                    ELSE {sTimestamps[Len(sTimestamps)]})
  /\ sKeyframes = <<>>
  /\ sI = 0
  /\ sCurrentKey = 0

Sampler_Linear ==
  /\ sPc = "call"
  /\ sKind = "LINEAR"
  /\ sKeyframes' = SampleLinearChannel(Len(sValues), sTimestamps, sValues, past)
  /\ sPc' = "returned"
  /\ UNCHANGED <<notSamplerVars, sKind, sTimestamps, sValues, past, sRate, sDuration,
                 sI, sCurrentKey>>

Sampler_Step ==
  /\ sPc = "call"
  /\ sKind = "STEP"
  /\ sKeyframes' = SampleStepChannel(Len(sValues), sTimestamps, sValues, past)
  /\ sPc' = "returned"
  /\ UNCHANGED <<notSamplerVars, sKind, sTimestamps, sValues, past, sRate, sDuration,
                 sI, sCurrentKey>>

\* SampleCubicSplineChannel up to its for loop.
Sampler_CubicSpline ==
  /\ sPc = "call"
  /\ sKind = "CUBICSPLINE"
  /\ sPc' = "loop"
  /\ sI' = 0
  /\ sCurrentKey' = 0
  /\ UNCHANGED <<notSamplerVars, sKind, sTimestamps, sValues, past, sRate, sDuration,
                 sKeyframes>>

\* One iteration of SampleCubicSplineChannel's for loop.
Sampler_CubicSplineKey ==
  /\ sPc = "loop"
  /\ sI < CubicSplineSize(sDuration, sRate)
  /\ LET time == CubicSplineTime(sI, sRate)
         key == CubicSplineScan(sTimestamps, Len(sValues) \div 3, sCurrentKey, time, past)
     IN /\ sCurrentKey' = key
        /\ sKeyframes' = Append(sKeyframes,
                                CubicSplineKey(sTimestamps, sValues, key, time, past))
  /\ sI' = sI + 1
  /\ UNCHANGED <<notSamplerVars, sPc, sKind, sTimestamps, sValues, past, sRate, sDuration>>

Sampler_CubicSplineReturn ==
  /\ sPc = "loop"
  /\ sI >= CubicSplineSize(sDuration, sRate)
  /\ sPc' = "returned"
  /\ UNCHANGED <<notSamplerVars, sKind, sTimestamps, sValues, past, sRate, sDuration,
                 sKeyframes, sI, sCurrentKey>>

NextSampler ==
  \/ Sampler_Linear
  \/ Sampler_Step
  \/ Sampler_CubicSpline
  \/ Sampler_CubicSplineKey
  \/ Sampler_CubicSplineReturn

SpecSampler == InitSampler /\ [][NextSampler]_vars


----------------------------------------------------------------------------
\* The animation overload of Import and SampleAnimationChannel

MaxJoints == 2

\* The nodes the animation's channels target and the skeleton is built from.
JointNodes == 0 .. (MaxJoints - 1)

KnownInterpolations == {"LINEAR", "STEP", "CUBICSPLINE"}
KnownPaths == {"translation", "rotation", "scale"}

\* sizeof(ValueType) of the track a target path is sampled into, and the
\* element size of an output accessor of float components.
SizeOfValue(path) == IF path = "rotation" THEN 16 ELSE 12
ElementSize(type) == IF type = "VEC4" THEN 16 ELSE 12
TypeOfPath(path) == IF path = "rotation" THEN "VEC4" ELSE "VEC3"

\* The output count that keeps the sampler's count ratio.
RatioCount(interpolation, inputCount) ==
  IF interpolation = "CUBICSPLINE" THEN 3 * inputCount ELSE inputCount

\* A channel with its sampler and the sampler's two accessors: the input's
\* data and max (<<>> when the accessor declares none), the output's type
\* and count.
Channel(node, path, interpolation, ts, max, type, count) ==
  [target_node |-> node, target_path |-> path, interpolation |-> interpolation,
   timestamps |-> ts, maxValues |-> max, outputType |-> type, outputCount |-> count]

AnimationTimestamps == {<<0, 2>>, <<1, 3, 4>>}

Last(seq) == seq[Len(seq)]

\* Channels as the glTF schema wants them, on any node or on none.
WellFormed(nodes, paths, interpolations) ==
  {Channel(n, p, k, ts, <<Last(ts)>>, TypeOfPath(p), RatioCount(k, Len(ts))) :
     n \in nodes, p \in paths, k \in interpolations, ts \in AnimationTimestamps}

PlainChannels == WellFormed(JointNodes \cup {NoNode}, KnownPaths, KnownInterpolations)

\* Channels that depart from a plain one in one respect: the target path, the
\* interpolation, the declared max, the count ratio or the output type.
OddChannels ==
  WellFormed(JointNodes \cup {NoNode}, {"weights"}, KnownInterpolations)
  \cup WellFormed(JointNodes \cup {NoNode}, KnownPaths, {"", "CATMULLROMSPLINE"})
  \cup {[c EXCEPT !.maxValues = <<>>] : c \in PlainChannels}
  \cup {[c EXCEPT !.outputCount = @ - 1] : c \in PlainChannels}
  \cup {[c EXCEPT !.outputType = IF @ = "VEC3" THEN "VEC4" ELSE "VEC3"] : c \in PlainChannels}

LinearChannels == WellFormed(JointNodes \cup {NoNode}, {"translation"}, {"LINEAR"})

\* The animations: no channel, one channel, two plain ones, or an odd one
\* before or behind a plain linear translation.
AnimationChoices ==
  {<<>>}
  \cup {<<c>> : c \in PlainChannels \cup OddChannels}
  \cup {<<c, d>> : c \in PlainChannels, d \in PlainChannels}
  \cup {<<c, d>> : c \in LinearChannels, d \in OddChannels}
  \cup {<<c, d>> : c \in OddChannels, d \in LinearChannels}

\* The rest poses: every node without any component, or node 0 with all three
\* and the other nodes with a translation only.
Rest(t, r, s) == [translation |-> t, rotation |-> r, scale |-> s]

RestChoices ==
  { [n \in Nodes |-> Rest(<<>>, <<>>, <<>>)],
    [n \in Nodes |-> IF n = 0 THEN Rest(<<5>>, <<6>>, <<7>>)
                     ELSE Rest(<<8 + n>>, <<>>, <<>>)] }

\* The output accessor's elements of channel c of the animation.
ChannelValues(c) == OutputValues(100 * c, animChannels[c].outputCount)

\* channels_per_joint[name]: the channels that target the node of that name.
RECURSIVE ChannelsFrom(_, _)
ChannelsFrom(c, node) ==
  IF c > Len(animChannels) THEN <<>>
  ELSE IF animChannels[c].target_node # NoNode /\ animChannels[c].target_node = node
       THEN <<c>> \o ChannelsFrom(c + 1, node)
       ELSE ChannelsFrom(c + 1, node)

\* Every channel that targets a node, whatever the node.
ChannelsOfAnyNode(node) ==
  SelectSeq([c \in DOMAIN animChannels |-> c],
            LAMBDA c : animChannels[c].target_node # NoNode)

ChannelsPerJoint(node) == ChannelsFrom(1, node)

EmptyTrack == [translations |-> <<>>, rotations |-> <<>>, scales |-> <<>>]

\* ozz::math::Normalize of a quaternion, which is modelled by its w component
\* (a Float3 by its x component).
Normalize(v) == IF v[2] = 0 THEN NaN ELSE RatDiv(v, Num(Abs(v[1])))

NormalizeKeys(keys) == [k \in DOMAIN keys |-> Key(keys[k].time, Normalize(keys[k].value))]

CreateTranslationBindPoseKey(node) ==
  Key(0, IF nodeRest[node].translation = <<>> THEN Num(0)
         ELSE Num(nodeRest[node].translation[1]))

CreateRotationBindPoseKey(node) ==
  Key(0, IF nodeRest[node].rotation = <<>> THEN Num(1)
         ELSE Num(nodeRest[node].rotation[1]))

\* A scale key of zero.
CreateScaleBindPoseKeyZero(node) == Key(0, Num(0))

CreateScaleBindPoseKey(node) ==
  Key(0, IF nodeRest[node].scale = <<>> THEN Num(1)
         ELSE Num(nodeRest[node].scale[1]))

\* An accumulator that takes every channel's duration.
RaiseDurationTo(duration, accumulator) == duration

\* Lines 661-663: the duration accumulator behind one channel.
RaiseDuration(duration, accumulator) ==
  IF duration > accumulator THEN duration ELSE accumulator

\* An unknown interpolation let through.
UnknownInterpolationAccepted == "true"

\* The return value for an interpolation or a target path that is not known.
UnknownInterpolation == "false"
UnknownTargetPath == "false"

\* What SampleAnimationChannel leaves: its return value ("abort" when an
\* assertion stops the process), *_duration and *_track.
Sampled(status, duration, track) ==
  [status |-> status, duration |-> duration, track |-> track]

\* The track with the keys of one property replaced.
WithKeys(track, path, keys) ==
  IF path = "translation" THEN [track EXCEPT !.translations = keys]
  ELSE IF path = "rotation" THEN [track EXCEPT !.rotations = keys]
  ELSE [track EXCEPT !.scales = keys]

\* The keys the sampler of the interpolation leaves.
SampledKeys(ch, values, rate, duration) ==
  IF ch.interpolation = "LINEAR"
  THEN SampleLinearChannel(ch.outputCount, ch.timestamps, values, past)
  ELSE IF ch.interpolation = "STEP"
  THEN SampleStepChannel(ch.outputCount, ch.timestamps, values, past)
  ELSE LET keys == SampleCubicSplineChannel(ch.timestamps, values, rate, duration, past)
       IN  IF ch.target_path = "rotation" THEN NormalizeKeys(keys) ELSE keys

\* SampleAnimationChannel for channel c.  asserts tells whether the build
\* keeps the assertions; without them the code runs on: it reads the float
\* behind an empty maxValues and samples whatever the counts are.
SampleAnimationChannel(c, rate, accumulator, track, asserts) ==
  LET ch == animChannels[c]
      values == ChannelValues(c)
      duration == IF ch.maxValues = <<>> THEN past ELSE ch.maxValues[1]
      raised == RaiseDuration(duration, accumulator)
  IN  IF ch.maxValues = <<>> /\ asserts
      THEN Sampled("abort", accumulator, track)
      ELSE IF ch.interpolation = ""
      THEN Sampled("false", raised, track)
      ELSE IF ch.interpolation \notin KnownInterpolations
      THEN Sampled(UnknownInterpolation, raised, track)
      ELSE IF ch.outputCount # RatioCount(ch.interpolation, Len(ch.timestamps)) /\ asserts
      THEN Sampled("abort", raised, track)
      ELSE IF ch.target_path \notin KnownPaths
      THEN Sampled(UnknownTargetPath, raised, track)
      ELSE IF ElementSize(ch.outputType) # SizeOfValue(ch.target_path)
      THEN \* BufferView returns nullptr
           Sampled("false", raised, track)
      ELSE IF ch.interpolation = "CUBICSPLINE" /\ ch.outputCount % 3 # 0 /\ asserts
      THEN Sampled("abort", raised, track)
      ELSE IF ch.interpolation = "STEP" /\ ch.outputCount = 0
      THEN \* resize(count * 2 - 1) of an unsigned count of 0 throws
           Sampled("abort", raised, track)
      ELSE Sampled("true", raised,
                   WithKeys(track, ch.target_path, SampledKeys(ch, values, rate, duration)))

\* Lines 621-629: the bind pose pads the tracks no channel has filled.
PadBindPose(track, node) ==
  [translations |-> IF track.translations = <<>>
                    THEN <<CreateTranslationBindPoseKey(node)>> ELSE track.translations,
   rotations |-> IF track.rotations = <<>>
                 THEN <<CreateRotationBindPoseKey(node)>> ELSE track.rotations,
   scales |-> IF track.scales = <<>>
              THEN <<CreateScaleBindPoseKey(node)>> ELSE track.scales]

StrictlyIncreasing(keys) ==
  \A k \in 1 .. (Len(keys) - 1) : keys[k].time < keys[k + 1].time

\* RawAnimation::Validate, as the specification describes it: a non-negative
\* duration, no empty track, strictly increasing key times in every track.
ValidateAnimation(duration, tracks) ==
  /\ duration >= 0
  /\ \A j \in DOMAIN tracks :
       \A keys \in {tracks[j].translations, tracks[j].rotations, tracks[j].scales} :
         keys # <<>> /\ StrictlyIncreasing(keys)

InitAnimation ==
  /\ SkeletonIdle
  /\ CallsIdle
  /\ sPc = "idle" /\ sKind = "none" /\ sTimestamps = <<>> /\ sValues = <<>>
  /\ sRate = DefaultRate /\ sDuration = 0 /\ sKeyframes = <<>> /\ sI = 0
  /\ sCurrentKey = 0
  /\ past \in PastChoices
  /\ nodeRest \in RestChoices
  /\ animChannels \in AnimationChoices
  /\ jointNames \in InjectiveSeqs(JointNodes)
  /\ samplingRate \in {0, 2 * DefaultRate}
  /\ samplingRateWarn = FALSE
  /\ animPc = "start"
  /\ jointIdx = 1
  /\ channelIdx = 1
  /\ animDuration = 0
  /\ animTracks = <<>>
  /\ animResult = "none"

\* Lines 553-598: the default sampling rate and its warning, the duration and
\* the tracks reset, the channels sorted by joint.
ImportAnimation_Begin ==
  /\ animPc = "start"
  /\ IF samplingRate = 0
     THEN /\ samplingRate' = DefaultRate
          /\ samplingRateWarn' = TRUE
     ELSE UNCHANGED <<samplingRate, samplingRateWarn>>
  /\ animDuration' = 0
  /\ animTracks' = [j \in 1 .. Len(jointNames) |-> EmptyTrack]
  /\ jointIdx' = 1
  /\ channelIdx' = 1
  /\ animPc' = "joints"
  /\ UNCHANGED <<notAnimVars, past, nodeRest, animChannels, jointNames, animResult>>

\* Lines 607-614: the next channel of joint i is sampled into its track.
ImportAnimation_SampleChannel ==
  /\ animPc = "joints"
  /\ jointIdx <= Len(jointNames)
  /\ channelIdx <= Len(ChannelsPerJoint(jointNames[jointIdx]))
  /\ \E asserts \in BOOLEAN :
       LET c == ChannelsPerJoint(jointNames[jointIdx])[channelIdx]
           got == SampleAnimationChannel(c, samplingRate, animDuration,
                                         animTracks[jointIdx], asserts)
       IN /\ animDuration' = got.duration
          /\ animTracks' = [animTracks EXCEPT ![jointIdx] = got.track]
          /\ IF got.status = "true"
             THEN /\ channelIdx' = channelIdx + 1
                  /\ UNCHANGED <<animPc, animResult>>
             ELSE IF got.status = "false"
             THEN /\ animPc' = "returned"
                  /\ animResult' = "false"
                  /\ UNCHANGED channelIdx
             ELSE /\ animPc' = "aborted"
                  /\ UNCHANGED <<channelIdx, animResult>>
  /\ UNCHANGED <<notAnimVars, past, nodeRest, animChannels, jointNames, samplingRate,
                 samplingRateWarn, jointIdx>>

\* Lines 616-630: joint i has no channel left; its empty tracks are padded.
ImportAnimation_PadBindPose ==
  /\ animPc = "joints"
  /\ jointIdx <= Len(jointNames)
  /\ channelIdx > Len(ChannelsPerJoint(jointNames[jointIdx]))
  /\ animTracks' = [animTracks EXCEPT
                      ![jointIdx] = PadBindPose(@, jointNames[jointIdx])]
  /\ jointIdx' = jointIdx + 1
  /\ channelIdx' = 1
  /\ UNCHANGED <<notAnimVars, past, nodeRest, animChannels, jointNames, samplingRate,
                 samplingRateWarn, animPc, animDuration, animResult>>

\* Lines 637-643.
ImportAnimation_Validate ==
  /\ animPc = "joints"
  /\ jointIdx > Len(jointNames)
  /\ animResult' = IF ValidateAnimation(animDuration, animTracks) THEN "true" ELSE "false"
  /\ animPc' = "returned"
  /\ UNCHANGED <<notAnimVars, past, nodeRest, animChannels, jointNames, samplingRate,
                 samplingRateWarn, jointIdx, channelIdx, animDuration, animTracks>>

NextAnimation ==
  \/ ImportAnimation_Begin
  \/ ImportAnimation_SampleChannel
  \/ ImportAnimation_PadBindPose
  \/ ImportAnimation_Validate

SpecAnimation == InitAnimation /\ [][NextAnimation]_vars

----------------------------------------------------------------------------
\* Several calls of the animation overload of Import on one importer

MaxCalls == 3

Calls == 1 .. MaxCalls

InitCalls ==
  /\ SkeletonIdle
  /\ SamplerIdle
  /\ nodeRest = <<>> /\ animChannels = <<>> /\ jointNames = <<>>
  /\ samplingRate = 0 /\ animPc = "idle" /\ jointIdx = 1 /\ channelIdx = 1
  /\ animDuration = 0 /\ animTracks = <<>> /\ animResult = "none"
  /\ samplingRateWarn = FALSE
  /\ callPc = [c \in Calls |-> "start"]
  /\ callRate \in [Calls -> {0, 2 * DefaultRate}]
  /\ callSamplingRate = callRate
  /\ callLogged = [c \in Calls |-> FALSE]

callOthers == <<docVars, skelVars, samplerVars, nodeRest, animChannels, jointNames,
                samplingRate, animPc, jointIdx, channelIdx, animDuration, animTracks,
                animResult>>

\* Lines 553-554: the test of _sampling_rate and the default.
Call_Enter(c) ==
  /\ callPc[c] = "start"
  /\ IF callSamplingRate[c] = 0
     THEN /\ callSamplingRate' = [callSamplingRate EXCEPT ![c] = DefaultRate]
          /\ callPc' = [callPc EXCEPT ![c] = "test"]
     ELSE /\ callPc' = [callPc EXCEPT ![c] = "import"]
          /\ UNCHANGED callSamplingRate
  /\ UNCHANGED <<callOthers, samplingRateWarn, callRate, callLogged>>

\* Line 557: the static is read.
Call_TestWarn(c) ==
  /\ callPc[c] = "test"
  /\ callPc' = [callPc EXCEPT ![c] = IF samplingRateWarn THEN "import" ELSE "log"]
  /\ UNCHANGED <<callOthers, samplingRateWarn, callRate, callSamplingRate, callLogged>>

\* Lines 558-563: the warning is logged and the static is written.
Call_Warn(c) ==
  /\ callPc[c] = "log"
  /\ callLogged' = [callLogged EXCEPT ![c] = TRUE]
  /\ samplingRateWarn' = TRUE
  /\ callPc' = [callPc EXCEPT ![c] = "import"]
  /\ UNCHANGED <<callOthers, callRate, callSamplingRate>>

\* Lines 567-644: the rest of the call works on m_model, which it only reads,
\* and on the caller's own animation.
Call_Import(c) ==
  /\ callPc[c] = "import"
  /\ callPc' = [callPc EXCEPT ![c] = "returned"]
  /\ UNCHANGED <<callOthers, samplingRateWarn, callRate, callSamplingRate, callLogged>>

NextCalls ==
  \E c \in Calls :
    \/ Call_Enter(c)
    \/ Call_TestWarn(c)
    \/ Call_Warn(c)
    \/ Call_Import(c)

SpecCalls == InitCalls /\ [][NextCalls]_vars

----------------------------------------------------------------------------
\* Properties of the samplers

\* The time of the key the for loop wrote last.
LastTime == CubicSplineTime(sI - 1, sRate)

\* A for loop iteration of the cubic spline sampler has just run, for an
\* output time within the authored range of two samples or more.
CubicKeyInRange ==
  /\ sPc = "loop"
  /\ sI >= 1
  /\ Len(sTimestamps) >= 2
  /\ sTimestamps[1] <= LastTime
  /\ LastTime <= sTimestamps[Len(sTimestamps)]

\* C2: for an output time t within the authored range, the segment the scan
\* chooses contains t: t_k <= t <= t_(k+1); so an output time that is the
\* authored timestamp t_j yields the authored value of sample j.
C2_ScanFindsSegment ==
  CubicKeyInRange =>
    /\ sCurrentKey + 2 <= Len(sTimestamps)
    /\ sTimestamps[sCurrentKey + 1] <= LastTime
    /\ LastTime <= sTimestamps[sCurrentKey + 2]
    /\ \A j \in 1 .. Len(sTimestamps) :
         sTimestamps[j] = LastTime => sKeyframes[sI].value = sValues[3 * (j - 1) + 2]

\* C3: a STEP channel of n >= 1 samples with strictly increasing timestamps
\* yields 2n-1 keyframes with strictly increasing times, key 2i being
\* (t_i, v_i) and key 2i+1 being (t_(i+1) - eps, v_i).
C3_StepTrack ==
  (sPc = "returned" /\ sKind = "STEP") =>
    /\ Len(sKeyframes) = 2 * Len(sTimestamps) - 1
    /\ StrictlyIncreasing(sKeyframes)
    /\ \A i \in 0 .. (Len(sTimestamps) - 1) :
         /\ sKeyframes[2 * i + 1] = Key(sTimestamps[i + 1], sValues[i + 1])
         /\ i < Len(sTimestamps) - 1 =>
              sKeyframes[2 * i + 2] = Key(sTimestamps[i + 2] - Eps, sValues[i + 1])

\* C11: the track of a LINEAR channel has as many keyframes as the channel has
\* input samples, and keyframe i has the time of input timestamp i and the
\* value of output element i, unchanged.
C11_LinearCopies ==
  (sPc = "returned" /\ sKind = "LINEAR") =>
    /\ Len(sKeyframes) = Len(sTimestamps)
    /\ \A i \in 1 .. Len(sTimestamps) :
         /\ sKeyframes[i].time = sTimestamps[i]
         /\ sKeyframes[i].value = sValues[i]

C11_Witness ==
  /\ sPc = "returned"
  /\ sKind = "LINEAR"
  /\ Len(sTimestamps) = MaxSamples
  /\ sTimestamps[MaxSamples] = LongTime
  /\ sKeyframes[MaxSamples] = Key(LongTime, sValues[MaxSamples])

\* C12: the track of a CUBICSPLINE channel of declared duration D, sampled at
\* the rate R > 0, has floor(D x R) + 1 keyframes, keyframe i (from 0) at the
\* time i / R, however many samples are authored.
C12_CubicSplineCount ==
  (sPc = "returned" /\ sKind = "CUBICSPLINE") =>
    /\ Len(sKeyframes) = (sDuration * sRate) \div TicksPerSecond + 1
    /\ \A i \in 0 .. (Len(sKeyframes) - 1) :
         sKeyframes[i + 1].time * sRate = i * TicksPerSecond

\* C12, as the code has it: the number of keyframes is floor(p) + 1 for the
\* float p nearest to D x R, which is one more than floor(D x R) + 1 when
\* D x R lies less than half a float spacing below a whole number; keyframe
\* i is at the time i / R, however many samples are authored.
C12_CubicSplineFloatCount ==
  (sPc = "returned" /\ sKind = "CUBICSPLINE") =>
    /\ Len(sKeyframes)
         = Floor(FloatRoundRat(sDuration * sRate, TicksPerSecond)) + 1
    /\ Len(sKeyframes) - ((sDuration * sRate) \div TicksPerSecond + 1) \in {0, 1}
    /\ \A i \in 0 .. (Len(sKeyframes) - 1) :
         sKeyframes[i + 1].time * sRate = i * TicksPerSecond

\* One authored sample, and a duration whose float product with the rate is
\* a whole number that the exact product does not reach.
C12_Witness ==
  /\ sPc = "returned"
  /\ sKind = "CUBICSPLINE"
  /\ Len(sTimestamps) = 1
  /\ sDuration = LongTime + 2
  /\ 3 * sRate = TicksPerSecond
  /\ Len(sKeyframes) = (sDuration * sRate) \div TicksPerSecond + 2

\* C16: for a sampler of N >= 1 authored samples and 3N output elements,
\* every iteration of SampleCubicSplineChannel's for loop reads inside the
\* authored arrays: currentKey + 1 <= N - 1 in the timestamps and
\* (currentKey + 1) * 3 + 1 <= 3N - 1 in the values.
C16_CubicSplineReadsInside ==
  (sPc = "loop" /\ sI >= 1 /\ Len(sValues) = 3 * Len(sTimestamps)) =>
    /\ sCurrentKey + 1 <= Len(sTimestamps) - 1
    /\ (sCurrentKey + 1) * 3 + 1 <= Len(sValues) - 1

----------------------------------------------------------------------------
\* Properties of the skeleton import

\* The nodes reachable from S through children links, S included.
RECURSIVE ReachFrom(_)
ReachFrom(S) ==
  LET T == S \cup UNION {Range(nodeChildren[n]) : n \in S}
  IN  IF T = S THEN S ELSE ReachFrom(T)

\* n is reachable from itself through one or more children links.
OnCycle(n) == n \in ReachFrom(Range(nodeChildren[n]))

SkinJoints == UNION {Range(modelSkins[k].joints) : k \in DOMAIN modelSkins}

\* Some node reachable from a scene root or a skin joint lies on a cycle.
CyclicInput == \E n \in ReachFrom(sceneNodes \cup SkinJoints) : OnCycle(n)

Returned == pc = "returned"

\* C1: the skeleton import of a document whose node graph has a cycle
\* reachable from a scene root or a skin joint terminates, and it returns
\* failure.
C1_CyclicImportReturnsFailure ==
  CyclicInput => <>(Returned /\ result = "false")

\* C5: an import that returns failure leaves no partially built output in the
\* caller's skeleton: no joint built before the failure point.
C5_NoPartialSkeleton ==
  (Returned /\ result = "false") => skeleton = <<>>

\* The joints of the skin that are parents of joint j.
ParentsIn(skin, j) == {p \in Range(skin.joints) : j \in Range(nodeChildren[p])}

Parentless(skin) == {j \in Range(skin.joints) : ParentsIn(skin, j) = {}}

\* The joints of the skin reachable from S through links between joints.
RECURSIVE JointsBelow(_, _)
JointsBelow(skin, S) ==
  LET T == S \cup {j \in Range(skin.joints) : ParentsIn(skin, j) \cap S # {}}
  IN  IF T = S THEN S ELSE JointsBelow(skin, T)

\* The joints form a single connected tree with exactly one parentless joint.
IsJointTree(skin) ==
  /\ Cardinality(Parentless(skin)) = 1
  /\ \A j \in Range(skin.joints) \ Parentless(skin) :
       Cardinality(ParentsIn(skin, j)) = 1
  /\ JointsBelow(skin, Parentless(skin)) = Range(skin.joints)

\* FindSkinRootJointIndex is leaving its while loop and returns root.
WalkReturns == pc = "walk" /\ WalkNext(skins[skinIdx], root) = NoNode

\* C7: for a skin with no explicit root whose joints form a single connected
\* tree with exactly one parentless joint, FindSkinRootJointIndex returns
\* that joint, whatever the order of the joints array.
C7_RootIsParentlessJoint ==
  (WalkReturns /\ IsJointTree(skins[skinIdx]))
    => root \in Parentless(skins[skinIdx])

\* The joints array <<J2, J0, J1>> of the chain J0 <- J1 <- J2 resolves to J0.
C7_Witness ==
  /\ WalkReturns
  /\ skins[skinIdx].joints = <<2, 0, 1>>
  /\ nodeChildren[0] = <<1>> /\ nodeChildren[1] = <<2>> /\ nodeChildren[2] = <<>>
  /\ root = 0

\* The names of the top-level joints of the skeleton.
TopLevelNames == {skeleton[j].name : j \in {k \in DOMAIN skeleton : skeleton[k].parent = 0}}

\* Two skins of the scene, with disjoint joint sets.
TwoDisjointSkins ==
  /\ Len(skins) = 2
  /\ Range(skins[1].joints) \cap Range(skins[2].joints) = {}

BothRootsTopLevel ==
  /\ result = "true"
  /\ Cardinality(roots) = 2
  /\ TopLevelNames = roots

\* C6: two scene skins with disjoint joint sets always yield a successfully
\* imported forest with both skins' roots as its distinct top-level joints,
\* also when one skin's root lies below a joint of the other skin.  (Stated
\* for documents without a matrix, on which CreateNodeTransform cannot fail.)
C6_TwoSkinsAlwaysImported ==
  ( /\ Returned
    /\ TwoDisjointSkins
    /\ \A n \in Nodes : ~nodeMatrix[n] )
    => BothRootsTopLevel

\* Some channel of the document's animations targets the node.
IsAnimationTarget(node) ==
  \E c \in DOMAIN animChannels : animChannels[c].target_node = node

\* C14: building a joint from a node fails only when the node carries a
\* matrix and is an animation target; a node that carries a matrix and is
\* never an animation target is accepted as a joint.
C14_MatrixFailsOnlyOnTargets ==
  (Returned /\ result = "false") =>
    \A j \in DOMAIN skeleton :
      (skeleton[j].name # NoNode /\ nodeMatrix[skeleton[j].name])
        => IsAnimationTarget(skeleton[j].name)

----------------------------------------------------------------------------
\* Properties of the animation import

AnimationReturned == animPc = "returned"

Succeeded == AnimationReturned /\ animResult = "true"

KnownChannel(c) ==
  /\ animChannels[c].interpolation \in KnownInterpolations
  /\ animChannels[c].target_path \in KnownPaths

\* The channels the import samples: they target a node, and a joint of the
\* skeleton has that node's name.
Dispatched(c) ==
  /\ animChannels[c].target_node # NoNode
  /\ animChannels[c].target_node \in Range(jointNames)

\* C4, as the specification states it: a successful import has no channel
\* of an unknown interpolation or an unknown target property.
C4_UnknownChannelAlwaysFails ==
  Succeeded => \A c \in DOMAIN animChannels : KnownChannel(c)

\* C4, as the code has it: a successful import has no such channel among the
\* channels that target a joint of the skeleton; those that target no node or
\* a node that is no joint are never looked at.
C4_UnknownChannelOfJointFails ==
  Succeeded => \A c \in DOMAIN animChannels : Dispatched(c) => KnownChannel(c)

C4_Witness ==
  /\ AnimationReturned
  /\ animResult = "false"
  /\ Len(animChannels) = 1
  /\ Dispatched(1)
  /\ animChannels[1].interpolation = "CATMULLROMSPLINE"
  /\ animChannels[1].maxValues # <<>>

Max(S) == IF S = {} THEN 0 ELSE CHOOSE m \in S : \A x \in S : x <= m

DeclaredMax(c) == animChannels[c].maxValues[1]

Declares(c) == animChannels[c].maxValues # <<>>

\* C9, as the specification states it: after a successful import the
\* duration is the largest declared max of the animation's channels, 0
\* without channels, and not negative.
C9_DurationIsMaxOfChannels ==
  (Succeeded /\ \A c \in DOMAIN animChannels : Declares(c))
    => /\ animDuration = Max({DeclaredMax(c) : c \in DOMAIN animChannels})
       /\ animDuration >= 0

\* The sampled channels all declare a max.
SampledDeclare == \A c \in DOMAIN animChannels : Dispatched(c) => Declares(c)

C9_DurationOfSampled ==
  (Succeeded /\ SampledDeclare)
    => /\ animDuration = Max({DeclaredMax(c) :
                                c \in {d \in DOMAIN animChannels : Dispatched(d)}})
       /\ animDuration >= 0

\* C9, as the code has it: after a successful import whose sampled channels
\* all declare a max, the duration is the largest declared max of the channels
\* that target a joint of the skeleton, 0 when there is none, and not
\* negative; the duration never decreases during the import.
C9_DurationIsMaxOfSampledChannels ==
  /\ [] C9_DurationOfSampled
  /\ [][animDuration' >= animDuration]_vars

C9_Witness ==
  /\ Succeeded
  /\ Len(animChannels) = 2
  /\ Dispatched(1) /\ Declares(1) /\ DeclaredMax(1) = 2
  /\ ~Dispatched(2) /\ Declares(2) /\ DeclaredMax(2) = 4
  /\ animDuration = 2

HasChannel(node, path) ==
  \E c \in DOMAIN animChannels :
    animChannels[c].target_node = node /\ animChannels[c].target_path = path

\* A rest-pose component, or the default of a node that omits it.
RestOr(component, default) ==
  IF component = <<>> THEN Num(default) ELSE Num(component[1])

\* C10: after a successful import, a property of a joint that no channel
\* targets has exactly one key, at time 0, of the node's rest-pose component,
\* or of zero translation, identity rotation, unit scale when the node omits it.
C10_BindPoseKeys ==
  Succeeded =>
    \A j \in DOMAIN jointNames :
      LET node == jointNames[j]
      IN  /\ ~HasChannel(node, "translation") =>
               animTracks[j].translations = <<Key(0, RestOr(nodeRest[node].translation, 0))>>
          /\ ~HasChannel(node, "rotation") =>
               animTracks[j].rotations = <<Key(0, RestOr(nodeRest[node].rotation, 1))>>
          /\ ~HasChannel(node, "scale") =>
               animTracks[j].scales = <<Key(0, RestOr(nodeRest[node].scale, 1))>>

C10_Witness ==
  /\ Succeeded
  /\ jointNames = <<0, 1>>
  /\ nodeRest[0].translation # <<>>
  /\ nodeRest[1].scale = <<>>
  /\ Len(animChannels) = 1
  /\ animChannels[1].target_node = 1
  /\ animChannels[1].target_path = "rotation"
  /\ Len(animTracks[2].rotations) > 1
  /\ Len(animTracks[1].rotations) = 1 /\ Len(animTracks[2].scales) = 1

\* The keys of one property of a joint's track.
TrackOf(track, path) ==
  IF path = "translation" THEN track.translations
  ELSE IF path = "rotation" THEN track.rotations
  ELSE track.scales

\* The bind-pose key of one property of a node.
BindPoseKey(node, path) ==
  IF path = "translation" THEN Key(0, RestOr(nodeRest[node].translation, 0))
  ELSE IF path = "rotation" THEN Key(0, RestOr(nodeRest[node].rotation, 1))
  ELSE Key(0, RestOr(nodeRest[node].scale, 1))

\* The keys that sampling channel c leaves in the track it is sampled into.
KeysOf(c) ==
  SampledKeys(animChannels[c], ChannelValues(c), samplingRate,
              IF Declares(c) THEN DeclaredMax(c) ELSE past)

\* C13: a successfully imported animation has one JointTrack per joint of the
\* skeleton, in the skeleton's joint order; each of the three tracks of joint
\* i is non-empty and holds keys from nowhere but a channel whose target
\* node has joint i's name (or the bind pose of that node).
C13_TracksFollowJoints ==
  Succeeded =>
    /\ Len(animTracks) = Len(jointNames)
    /\ \A j \in DOMAIN jointNames : \A path \in KnownPaths :
         LET keys == TrackOf(animTracks[j], path)
         IN  /\ keys # <<>>
             /\ \/ keys = <<BindPoseKey(jointNames[j], path)>>
                \/ \E c \in DOMAIN animChannels :
                     /\ animChannels[c].target_node = jointNames[j]
                     /\ animChannels[c].target_path = path
                     /\ keys = KeysOf(c)

\* Two joints in the reverse of the node order, a channel on each.
C13_Witness ==
  /\ Succeeded
  /\ jointNames = <<1, 0>>
  /\ Len(animChannels) = 2
  /\ animChannels[1].target_node = 0 /\ animChannels[1].target_path = "translation"
  /\ animChannels[2].target_node = 1 /\ animChannels[2].target_path = "translation"
  /\ animTracks[1].translations = KeysOf(2)
  /\ animTracks[2].translations = KeysOf(1)
  /\ KeysOf(1) # KeysOf(2)
  /\ Len(animTracks[1].rotations) = 1

\* The channel's sampler keeps the count ratio of its interpolation.
RatioKept(c) ==
  animChannels[c].outputCount =
    RatioCount(animChannels[c].interpolation, Len(animChannels[c].timestamps))

\* C15: a sampled channel whose sampler breaks the count ratio, or whose
\* input accessor declares no maximum, makes the import return a failure: the
\* process is not aborted and no import succeeds with such a channel sampled.
C15_SchemaViolationFails ==
  /\ animPc # "aborted"
  /\ Succeeded =>
       \A c \in DOMAIN animChannels : Dispatched(c) => (Declares(c) /\ RatioKept(c))

----------------------------------------------------------------------------
\* Properties of several calls

\* Call c reads the function's static during its run: it is given the rate 0.
ReadsStatic(c) == callRate[c] = 0

\* C8: no step of one call writes a variable that another call reads or
\* writes.
C8_NoSharedMutableState ==
  [][\A c \in Calls :
       (callPc'[c] # callPc[c] /\ samplingRateWarn' # samplingRateWarn)
         => \A d \in Calls \ {c} : ~ReadsStatic(d)]_vars

============================================================================
